---- MODULE Spec2Model ----
(***************************************************************************)
(* Model of inspect_ai/_util/trace.py: the trace_action context manager,   *)
(* the records it hands to the logger, and the clocks and identifier       *)
(* generator it reads.                                                     *)
(***************************************************************************)
EXTENDS Integers, Sequences, FiniteSets, TLC

(* ------------------------------ bounds --------------------------------- *)
\* largest reading of time.monotonic()
MaxMono == 1
\* largest reading of time.time()
MaxWall == 1
\* longest message template, in pieces of text and conversion specs
MaxTemplate == 2
\* longest *args tuple
MaxArgs == 2
\* most ad hoc attributes on one log record
MaxExtras == 3
\* two activations of trace_action: one after the other, nested or concurrent
Scopes == {1, 2}
\* the values uuid() returns, compared for equality only
IdPool == {1, 2}

(* --------------------------- input domains ----------------------------- *)
Actions == {"build", "test"}

\* (message, *args, **kwargs) of a call: a template is a sequence of literal
\* text and conversion specs, args a tuple of values, kwargs the keys of a dict
Call(m, a, k) == [message |-> m, args |-> a, kwargs |-> k]
Calls ==
    { Call(<<"%s">>,    <<>>,         <<>>),
      Call(<<"%s">>,    <<"x">>,      <<>>),
      Call(<<"%s">>,    <<"x", "x">>, <<>>),
      Call(<<"%(j)s">>, <<>>,         <<"k">>) }

\* what the wrapped work can raise: [kind, msg] with msg = str(ex)
Exceptions ==
    { [kind |-> "CancelledError",    msg |-> ""],
      [kind |-> "KeyboardInterrupt", msg |-> ""],
      [kind |-> "ValueError",        msg |-> "boom"],
      [kind |-> "SystemExit",        msg |-> "1"] }

NoCall == Call(<<>>, <<>>, <<>>)

\* every call within the bounds: templates over literal text, %s, %(k)s and
\* %(j)s, args over two values, kwargs empty or {k: x}
Tokens == {"txt", "%s", "%(k)s", "%(j)s"}
Templates == UNION { [1..n -> Tokens] : n \in 1..MaxTemplate }
ArgTuples == UNION { [1..n -> {"x", "y"}] : n \in 0..MaxArgs }
KwargDicts == { <<>>, <<"k">> }
AllCalls == { Call(m, a, k) : m \in Templates, a \in ArgTuples, k \in KwargDicts }

NoExc   == [kind |-> "none",    msg |-> ""]
Pending == [kind |-> "pending", msg |-> ""]
Normal  == [kind |-> "normal",  msg |-> ""]

(* ----------------------- python exception classes ---------------------- *)
\* classes deriving from Exception (asyncio.CancelledError, KeyboardInterrupt
\* and SystemExit derive from BaseException only)
IsException(kind) == kind \in {"ValueError", "KeyError", "TypeError"}

\* the classes named by the first except clause
IsCancellation(kind) == kind \in {"KeyboardInterrupt", "CancelledError"}

\* variant: the first except clause names KeyboardInterrupt only
ClassifyInterruptOnly(ex) ==
    IF ex.kind = "KeyboardInterrupt" THEN "cancel"
    ELSE IF IsException(ex.kind) THEN "error"
    ELSE "none"

\* which except clause of trace_action takes an exception thrown at the yield
Classify(ex) ==
    IF IsCancellation(ex.kind) THEN "cancel"
    ELSE IF IsException(ex.kind) THEN "error"
    ELSE "none"

(* --------------------------- message rendering ------------------------- *)
TypeError(m) == [kind |-> "TypeError", msg |-> m]
KeyErr(k)    == [kind |-> "KeyError",  msg |-> k]

IsKeySpec(tok) == tok \in {"%(k)s", "%(j)s"}
KeyOf(tok) == IF tok = "%(k)s" THEN "k" ELSE "j"
HasKey(d, k) == \E n \in 1..Len(d) : d[n] = k
\* str() of a kwargs dict, as one piece of text
DictStr(d) == IF Len(d) = 0 THEN "{}" ELSE "{'" \o d[1] \o "': 'x'}"

\* message % args, args a non-empty tuple: specs consume args left to right
RECURSIVE FormatTuple(_, _, _)
FormatTuple(fmt, args, out) ==
    IF Len(fmt) = 0
    THEN IF Len(args) > 0
         THEN [ok |-> FALSE, text |-> <<>>,
               err |-> TypeError("not all arguments converted during string formatting")]
         ELSE [ok |-> TRUE, text |-> out, err |-> NoExc]
    ELSE LET tok == Head(fmt) IN
         IF IsKeySpec(tok)
         THEN [ok |-> FALSE, text |-> <<>>, err |-> TypeError("format requires a mapping")]
         ELSE IF tok = "%s"
         THEN IF Len(args) = 0
              THEN [ok |-> FALSE, text |-> <<>>,
                    err |-> TypeError("not enough arguments for format string")]
              ELSE FormatTuple(Tail(fmt), Tail(args), Append(out, Head(args)))
         ELSE FormatTuple(Tail(fmt), args, Append(out, tok))

\* message % kwargs, kwargs a non-empty dict: a keyed spec looks its key up,
\* a positional spec takes the dict itself once (fresh) or the keyed value
RECURSIVE FormatDict(_, _, _, _)
FormatDict(fmt, d, fresh, out) ==
    IF Len(fmt) = 0
    THEN [ok |-> TRUE, text |-> out, err |-> NoExc]
    ELSE LET tok == Head(fmt) IN
         IF IsKeySpec(tok)
         THEN IF HasKey(d, KeyOf(tok))
              THEN FormatDict(Tail(fmt), d, FALSE, Append(out, "x"))
              ELSE [ok |-> FALSE, text |-> <<>>, err |-> KeyErr("'" \o KeyOf(tok) \o "'")]
         ELSE IF tok = "%s"
         THEN IF fresh
              THEN FormatDict(Tail(fmt), d, FALSE, Append(out, DictStr(d)))
              ELSE [ok |-> FALSE, text |-> <<>>,
                    err |-> TypeError("not enough arguments for format string")]
         ELSE FormatDict(Tail(fmt), d, fresh, Append(out, tok))

\* variant: kwargs are looked at before args
RenderKwargsFirst(message, args, kwargs) ==
    IF Len(kwargs) > 0 THEN FormatDict(message, kwargs, TRUE, <<>>)
    ELSE IF Len(args) > 0 THEN FormatTuple(message, args, <<>>)
    ELSE [ok |-> TRUE, text |-> message, err |-> NoExc]

\* formatted_message = message % args if args else message % kwargs if kwargs
\*                     else message
Render(message, args, kwargs) ==
    IF Len(args) > 0 THEN FormatTuple(message, args, <<>>)
    ELSE IF Len(kwargs) > 0 THEN FormatDict(message, kwargs, TRUE, <<>>)
    ELSE [ok |-> TRUE, text |-> message, err |-> NoExc]

(* ------------------------------ records -------------------------------- *)
TRACE == "TRACE"

\* the nested trace_message(event) of trace_action
trace_message(action, formatted_message, event) ==
    <<"Action: ", action, " - ">> \o formatted_message \o <<" (", event, ")">>

LogRecord(action, formatted_message, event, extra) ==
    [level |-> TRACE, msg |-> trace_message(action, formatted_message, event),
     extra |-> extra]

\* variant: the enter record is logged under an identifier of its own
EnterExtraOwnId(action, trace_id, start_wall_v) ==
    ("action" :> action) @@ ("event" :> "enter") @@ ("trace_id" :> trace_id + 100)
        @@ ("start_time" :> start_wall_v)

EnterExtra(action, trace_id, start_wall_v) ==
    ("action" :> action) @@ ("event" :> "enter") @@ ("trace_id" :> trace_id)
        @@ ("start_time" :> start_wall_v)

\* variant: normal completion is logged with the cancel event
ExitExtraAsCancel(action, trace_id, duration) ==
    ("action" :> action) @@ ("event" :> "cancel") @@ ("trace_id" :> trace_id)
        @@ ("duration" :> duration)

ExitExtra(action, trace_id, duration) ==
    ("action" :> action) @@ ("event" :> "exit") @@ ("trace_id" :> trace_id)
        @@ ("duration" :> duration)

\* variant: the cancel record repeats start_time
CancelExtraWithStart(action, trace_id, duration) ==
    ("action" :> action) @@ ("event" :> "cancel") @@ ("trace_id" :> trace_id)
        @@ ("duration" :> duration) @@ ("start_time" :> 0)

CancelExtra(action, trace_id, duration) ==
    ("action" :> action) @@ ("event" :> "cancel") @@ ("trace_id" :> trace_id)
        @@ ("duration" :> duration)

\* traceback.format_exc() inside the except clause: header, frames, last line
FormatExc(ex) == <<"Traceback (most recent call last):", ex.kind, ex.msg>>

ErrorExtra(action, trace_id, duration, ex) ==
    ("action" :> action) @@ ("event" :> "error") @@ ("trace_id" :> trace_id)
        @@ ("duration" :> duration) @@ ("error" :> ex.msg)
        @@ ("error_type" :> ex.kind) @@ ("stacktrace" :> FormatExc(ex))

\* variant: the except clause ends without raise
ReraiseSwallowed(ex) == Normal

\* the bare raise that ends both except clauses
Reraise(ex) == ex

(* ------------------------------- state --------------------------------- *)
VARIABLES
    pc,               \* per activation: idle, work (at the yield), done
    action,           \* per activation: the action argument
    call,             \* per activation: the message, args and kwargs arguments
    formatted_message,\* per activation: the rendered message
    trace_id,         \* per activation: the identifier uuid() returned
    start_monotonic,  \* per activation: time.monotonic() at entry
    start_wall,       \* per activation: time.time() at entry
    raised,           \* per activation: what the wrapped work raised at the yield
    result,           \* per activation: what the caller of the scope observes
    runs,             \* per activation: how often the wrapped work was started
    parent,           \* per activation: the activation whose work it is nested in, or 0
    sink,             \* the records handed to logger.log, in order
    mono,             \* the monotonic clock
    wall,             \* the wall clock
    issued,           \* identifiers uuid() has returned
    rec,              \* the logging.LogRecord handed to TraceFormatter.format
    out,              \* what TraceFormatter.format returned or raised
    written,          \* per line of the trace file: the log record it was formatted from
    file,             \* the lines of the trace file
    rd_pc,            \* read_trace_file: closed, loop, done
    rd_pos,           \* read_trace_file: lines consumed by the reader
    trace_records,    \* read_trace_file: the local list of typed records
    returned          \* read_trace_file: what its caller receives

vars == <<pc, action, call, formatted_message, trace_id, start_monotonic, start_wall,
          raised, result, runs, parent, sink, mono, wall, issued,
          rec, out, written, file, rd_pc, rd_pos, trace_records, returned>>

\* the state of trace_action and of its clocks
traceVars == <<pc, action, call, formatted_message, trace_id, start_monotonic,
               start_wall, raised, result, runs, parent, sink, mono, wall, issued>>

\* the state of the formatter, the trace file and its reader
ioVars == <<rec, out, written, file, rd_pc, rd_pos, trace_records, returned>>

NoRecord == [levelname |-> "", msg |-> <<>>, args |-> <<>>, created |-> "",
             seen |-> FALSE, extra |-> <<>>]
NoOutput == [st |-> "none", line |-> <<>>, err |-> NoExc]
NoReturn == [st |-> "none", records |-> <<>>, err |-> NoExc]

scopeVars == <<pc, action, call, formatted_message, trace_id, start_monotonic,
               start_wall, raised, result, runs, parent>>

\* nothing formatted, an empty trace file, no read under way
InitIO ==
    /\ rec = NoRecord
    /\ out = NoOutput
    /\ written = <<>>
    /\ file = <<>>
    /\ rd_pc = "closed"
    /\ rd_pos = 0
    /\ trace_records = <<>>
    /\ returned = NoReturn

\* no activation of trace_action yet
InitTrace ==
    /\ pc = [i \in Scopes |-> "idle"]
    /\ action = [i \in Scopes |-> ""]
    /\ call = [i \in Scopes |-> NoCall]
    /\ formatted_message = [i \in Scopes |-> <<>>]
    /\ trace_id = [i \in Scopes |-> 0]
    /\ start_monotonic = [i \in Scopes |-> 0]
    /\ start_wall = [i \in Scopes |-> 0]
    /\ raised = [i \in Scopes |-> NoExc]
    /\ result = [i \in Scopes |-> Pending]
    /\ runs = [i \in Scopes |-> 0]
    /\ parent = [i \in Scopes |-> 0]
    /\ sink = <<>>
    /\ mono = 0
    /\ wall = 0
    /\ issued = {}

Init == InitTrace /\ InitIO

(* ------------------------------- clocks -------------------------------- *)
\* some activation has still to read a clock
Observed == \E i \in Scopes : pc[i] # "done"

\* time.monotonic() never goes back
Tick ==
    /\ Observed
    /\ mono < MaxMono
    /\ mono' = mono + 1
    /\ UNCHANGED <<scopeVars, sink, wall, issued, ioVars>>

\* time.time() can be set forwards or backwards
AdjustWall ==
    /\ Observed
    /\ \E w \in 0..MaxWall : w # wall /\ wall' = w
    /\ UNCHANGED <<scopeVars, sink, mono, issued, ioVars>>

(* ---------------------------- trace_action ----------------------------- *)
\* variant: an identifier that may have been handed out before
AnyIds == IdPool

\* shortuuid.uuid(): a value not handed out before
NewIds == IdPool \ issued

\* activations whose scope is open inside the work of i
OpenChildren(i) == { j \in Scopes : parent[j] = i /\ pc[j] = "work" }

\* activations inside whose work a new scope can be opened
Enclosing(i) == { j \in Scopes : j = i - 1 /\ pc[j] = "work" }

\* lines 38-50: the enter record is logged and the generator yields to the
\* wrapped work
EnterYield(i, a, text, id) ==
    /\ formatted_message' = [formatted_message EXCEPT ![i] = text]
    /\ sink' = Append(sink, LogRecord(a, text, "enter", EnterExtra(a, id, wall)))
    /\ pc' = [pc EXCEPT ![i] = "work"]
    /\ runs' = [runs EXCEPT ![i] = @ + 1]
    /\ result' = result

\* variant: the enter record is logged with the raw template before rendering
EnterRaiseLogged(i, a, c, id, err) ==
    /\ pc' = [pc EXCEPT ![i] = "done"]
    /\ result' = [result EXCEPT ![i] = err]
    /\ sink' = Append(sink, LogRecord(a, c.message, "enter", EnterExtra(a, id, wall)))
    /\ UNCHANGED <<formatted_message, runs>>

\* line 32 raises: the generator ends before line 38, the with-block is skipped
EnterRaise(i, a, c, id, err) ==
    /\ pc' = [pc EXCEPT ![i] = "done"]
    /\ result' = [result EXCEPT ![i] = err]
    /\ UNCHANGED <<formatted_message, sink, runs>>

\* __enter__, lines 28-50: identifier, clock readings, rendering, the enter
\* record, then the yield to the wrapped work, for a call drawn from cs
EnterWith(i, cs) ==
    /\ pc[i] = "idle"
    /\ \E a \in Actions, c \in cs, id \in NewIds, p \in {0} \cup Enclosing(i) :
          LET r == Render(c.message, c.args, c.kwargs) IN
          /\ issued' = issued \cup {id}
          /\ parent' = [parent EXCEPT ![i] = p]
          /\ action' = [action EXCEPT ![i] = a]
          /\ call' = [call EXCEPT ![i] = c]
          /\ trace_id' = [trace_id EXCEPT ![i] = id]
          /\ start_monotonic' = [start_monotonic EXCEPT ![i] = mono]
          /\ start_wall' = [start_wall EXCEPT ![i] = wall]
          /\ IF r.ok THEN EnterYield(i, a, r.text, id) ELSE EnterRaise(i, a, c, id, r.err)
    /\ UNCHANGED <<raised, mono, wall, ioVars>>

Enter(i) == EnterWith(i, Calls)

\* variant: the duration is taken from the wall clock
DurationWall(i) == wall - start_wall[i]

\* duration = time.monotonic() - start_monotonic (lines 51, 63, 76)
Duration(i) == mono - start_monotonic[i]

\* __exit__ after the with-block finished, lines 51-61
TraceExit(i) ==
    /\ pc[i] = "work"
    /\ OpenChildren(i) = {}
    /\ sink' = Append(sink, LogRecord(action[i], formatted_message[i], "exit",
                 ExitExtra(action[i], trace_id[i], Duration(i))))
    /\ pc' = [pc EXCEPT ![i] = "done"]
    /\ result' = [result EXCEPT ![i] = Normal]
    /\ UNCHANGED <<action, call, formatted_message, trace_id, start_monotonic, start_wall,
                   raised, runs, parent, mono, wall, issued, ioVars>>

\* __exit__ after the with-block raised ex, lines 62-74:
\* except (KeyboardInterrupt, asyncio.CancelledError)
TraceCancel(i) ==
    /\ pc[i] = "work"
    /\ OpenChildren(i) = {}
    /\ \E ex \in Exceptions :
          /\ Classify(ex) = "cancel"
          /\ raised' = [raised EXCEPT ![i] = ex]
          /\ sink' = Append(sink, LogRecord(action[i], formatted_message[i], "cancel",
                CancelExtra(action[i], trace_id[i], Duration(i))))
          /\ result' = [result EXCEPT ![i] = Reraise(ex)]
    /\ pc' = [pc EXCEPT ![i] = "done"]
    /\ UNCHANGED <<action, call, formatted_message, trace_id, start_monotonic, start_wall,
                   runs, parent, mono, wall, issued, ioVars>>

\* __exit__ after the with-block raised ex, lines 75-90: except Exception as ex
TraceError(i) ==
    /\ pc[i] = "work"
    /\ OpenChildren(i) = {}
    /\ \E ex \in Exceptions :
          /\ Classify(ex) = "error"
          /\ raised' = [raised EXCEPT ![i] = ex]
          /\ sink' = Append(sink, LogRecord(action[i], formatted_message[i], "error",
                ErrorExtra(action[i], trace_id[i], Duration(i), ex)))
          /\ result' = [result EXCEPT ![i] = Reraise(ex)]
    /\ pc' = [pc EXCEPT ![i] = "done"]
    /\ UNCHANGED <<action, call, formatted_message, trace_id, start_monotonic, start_wall,
                   runs, parent, mono, wall, issued, ioVars>>

\* __exit__ after the with-block raised an exception neither except clause
\* names: it leaves the generator as it came, nothing is logged
Unhandled(i) ==
    /\ pc[i] = "work"
    /\ OpenChildren(i) = {}
    /\ \E ex \in Exceptions :
          /\ Classify(ex) = "none"
          /\ raised' = [raised EXCEPT ![i] = ex]
          /\ result' = [result EXCEPT ![i] = ex]
    /\ pc' = [pc EXCEPT ![i] = "done"]
    /\ UNCHANGED <<action, call, formatted_message, trace_id, start_monotonic, start_wall,
                   runs, parent, sink, mono, wall, issued, ioVars>>

Next ==
    \/ Tick
    \/ AdjustWall
    \/ \E i \in Scopes : Enter(i)
    \/ \E i \in Scopes : TraceExit(i)
    \/ \E i \in Scopes : TraceCancel(i)
    \/ \E i \in Scopes : TraceError(i)
    \/ \E i \in Scopes : Unhandled(i)

Spec == Init /\ [][Next]_vars

(* ------------------ one activation, every call in bounds ---------------- *)
EnterAny == EnterWith(1, AllCalls)

NextOne ==
    \/ EnterAny
    \/ TraceExit(1)
    \/ TraceCancel(1)
    \/ TraceError(1)
    \/ Unhandled(1)

SpecOne == Init /\ [][NextOne]_vars

(* ------------------------- reading the sink ---------------------------- *)
TerminalEvents == {"exit", "cancel", "error"}

Positions == 1..Len(sink)
Ev(n) == sink[n].extra["event"]
Tid(n) == sink[n].extra["trace_id"]

\* positions of the records carrying a trace_id
RecsOf(id) == { n \in Positions : Tid(n) = id }
EntersOf(id) == { n \in RecsOf(id) : Ev(n) = "enter" }
TerminalsOf(id) == { n \in RecsOf(id) : Ev(n) \in TerminalEvents }

\* the wrapped work of activation i was started / has ended
Started(i) == runs[i] > 0
Ended(i) == Started(i) /\ pc[i] = "done"
RenderFailed(i) == pc[i] # "idle" /\ ~Render(call[i].message, call[i].args, call[i].kwargs).ok

(* -------------------------------- C1 ----------------------------------- *)
\* C1: for every activation, whatever way the wrapped work ends, the sink holds
\* exactly one enter record and exactly one terminal record with the
\* activation's trace_id, and never more than two records with that trace_id.
C1_OneEnterOneTerminal ==
    \A i \in Scopes :
        /\ Started(i) => /\ Cardinality(EntersOf(trace_id[i])) = 1
                         /\ Cardinality(RecsOf(trace_id[i])) <= 2
        /\ Ended(i) => Cardinality(TerminalsOf(trace_id[i])) = 1

(* -------------------------------- C2 ----------------------------------- *)
\* C2: a terminal record is preceded in the sink by the enter record with the
\* same trace_id; while the wrapped work runs its enter record is already in
\* the sink and no terminal record of it is.
C2_EnterBeforeTerminal ==
    /\ \A n \in Positions :
          Ev(n) \in TerminalEvents =>
              \E m \in 1..(n - 1) : Ev(m) = "enter" /\ Tid(m) = Tid(n)
    /\ \A i \in Scopes :
          pc[i] = "work" => /\ EntersOf(trace_id[i]) # {}
                            /\ TerminalsOf(trace_id[i]) = {}

\* both activations overlapped and both terminal records are in the sink
C2_Witness ==
    /\ Len(sink) = 4
    /\ Ev(1) = "enter" /\ Ev(2) = "enter"
    /\ Ev(3) \in TerminalEvents /\ Ev(4) \in TerminalEvents
    /\ Tid(3) = Tid(1)

(* -------------------------------- C3 ----------------------------------- *)
\* C3: when the wrapped work is cancelled (CancelledError or KeyboardInterrupt
\* raised out of it) the scope logs a cancel record, no exit or error record,
\* and the caller observes the same cancellation.
C3_CancelRecordedAndReraised ==
    \A i \in Scopes :
        (Ended(i) /\ IsCancellation(raised[i].kind)) =>
            /\ \E n \in TerminalsOf(trace_id[i]) : Ev(n) = "cancel"
            /\ \A n \in RecsOf(trace_id[i]) : Ev(n) \notin {"exit", "error"}
            /\ result[i] = raised[i]

\* one activation cancelled by CancelledError, the other by KeyboardInterrupt
C3_Witness ==
    /\ Ended(1) /\ raised[1].kind = "CancelledError"
    /\ Ended(2) /\ raised[2].kind = "KeyboardInterrupt"

(* -------------------------------- C4 ----------------------------------- *)
\* C4: when the wrapped work fails for any reason other than cancellation the
\* scope logs an error record whose error_type is the failure's class name,
\* whose error is its message and whose stacktrace is non-empty, for every
\* kind of failure.
C4_ErrorRecordForEveryFailure ==
    \A i \in Scopes :
        (Ended(i) /\ raised[i] # NoExc /\ ~IsCancellation(raised[i].kind)) =>
            \E n \in TerminalsOf(trace_id[i]) :
                /\ Ev(n) = "error"
                /\ sink[n].extra["error_type"] = raised[i].kind
                /\ sink[n].extra["error"] = raised[i].msg
                /\ Len(sink[n].extra["stacktrace"]) > 0

(* -------------------------------- C5 ----------------------------------- *)
\* C5: what the caller observes when the scope exits is what the wrapped work
\* raised: never normal completion in its place, never another failure, and
\* the wrapped work is started once only.
C5_FailurePropagatesUnchanged ==
    \A i \in Scopes :
        /\ runs[i] <= 1
        /\ (Ended(i) /\ raised[i] # NoExc) => result[i] = raised[i]
        /\ (Ended(i) /\ result[i] = Normal) => raised[i] = NoExc

\* one scope left by a failure and one by a cancellation
C5_Witness ==
    /\ Ended(1) /\ raised[1].kind = "ValueError" /\ result[1] = raised[1]
    /\ Ended(2) /\ raised[2].kind = "CancelledError" /\ result[2] = raised[2]

(* -------------------------------- C6 ----------------------------------- *)
\* C6: when the wrapped work completes normally the activation's records are
\* enter then exit under one trace_id, no cancel or error record, and the
\* scope exits normally.
C6_NormalCompletion ==
    \A i \in Scopes :
        (Ended(i) /\ raised[i] = NoExc) =>
            /\ Cardinality(RecsOf(trace_id[i])) = 2
            /\ \E m, n \in RecsOf(trace_id[i]) :
                  m < n /\ Ev(m) = "enter" /\ Ev(n) = "exit"
            /\ result[i] = Normal

\* a scope nested in another, both completed normally
C6_Witness ==
    /\ parent[2] = 1
    /\ Ended(1) /\ raised[1] = NoExc
    /\ Ended(2) /\ raised[2] = NoExc

(* -------------------------------- C7 ----------------------------------- *)
\* C7: when rendering the message template fails, the sink holds no record of
\* the activation, the wrapped work is never started, and the caller observes
\* the rendering failure.
C7_RenderFailureLogsNothing ==
    \A i \in Scopes :
        RenderFailed(i) =>
            /\ RecsOf(trace_id[i]) = {}
            /\ runs[i] = 0
            /\ pc[i] = "done"
            /\ result[i] = Render(call[i].message, call[i].args, call[i].kwargs).err

\* a bad keyword substitution and a bad positional substitution
C7_Witness ==
    /\ RenderFailed(1) /\ result[1].kind = "KeyError"
    /\ RenderFailed(2) /\ result[2].kind = "TypeError"

(* -------------------------------- C8 ----------------------------------- *)
\* C8: action, event and trace_id are on every record; start_time is on the
\* enter record only; duration is on the terminal records only; error,
\* error_type and stacktrace are on the error records only.
C8_FieldPresence ==
    \A n \in Positions :
        LET keys == DOMAIN sink[n].extra IN
        /\ {"action", "event", "trace_id"} \subseteq keys
        /\ ("start_time" \in keys) <=> (Ev(n) = "enter")
        /\ ("duration" \in keys) <=> (Ev(n) \in TerminalEvents)
        /\ \A k \in {"error", "error_type", "stacktrace"} :
              (k \in keys) <=> (Ev(n) = "error")

\* the sink holds enter records, a cancel record and an error record
C8_Witness ==
    /\ \E n \in Positions : Ev(n) = "cancel"
    /\ \E n \in Positions : Ev(n) = "error"

(* -------------------------------- C9 ----------------------------------- *)
\* C9: the duration of a terminal record is >= 0 and is the monotonic reading
\* at the terminal event minus the one taken at entry, whatever the wall
\* clock did in between.
C9_DurationMonotonic ==
    [][ \A i \in Scopes :
          (pc[i] = "work" /\ pc'[i] = "done" /\ Len(sink') = Len(sink) + 1) =>
              LET d == sink'[Len(sink')].extra["duration"] IN
              /\ d >= 0
              /\ d = mono - start_monotonic[i] ]_vars

\* a terminal record with a positive duration while the wall clock is behind
\* the activation's start_time
C9_Witness ==
    \E i \in Scopes :
        /\ Ended(i)
        /\ wall < start_wall[i]
        /\ \E n \in TerminalsOf(trace_id[i]) : sink[n].extra["duration"] > 0

(* -------------------------------- C10 ---------------------------------- *)
\* C10: the trace_id is generated once per activation: the enter record and
\* the terminal record carry the activation's trace_id, and it differs from
\* the trace_id of every other activation.
C10_TraceIdPerActivation ==
    [][ \A i \in Scopes :
          /\ (pc[i] = "idle" /\ pc'[i] = "work") =>
                /\ sink'[Len(sink')].extra["trace_id"] = trace_id'[i]
                /\ \A j \in Scopes \ {i} : pc[j] # "idle" => trace_id[j] # trace_id'[i]
          /\ pc[i] = "work" =>
                /\ trace_id'[i] = trace_id[i]
                /\ (pc'[i] = "done" /\ Len(sink') = Len(sink) + 1) =>
                      sink'[Len(sink')].extra["trace_id"] = trace_id[i] ]_vars

\* two activations of the same action name, one nested in the other, both ended
C10_Witness ==
    /\ Len(sink) = 4
    /\ action[1] = action[2]
    /\ parent[2] = 1
    /\ Tid(1) = Tid(4) /\ Tid(2) = Tid(3) /\ Tid(1) # Tid(2)

(* -------------------------------- C11 ---------------------------------- *)
\* the terminal event that matches what the wrapped work did
OutcomeEvent(ex) ==
    IF ex = NoExc THEN "exit"
    ELSE IF IsCancellation(ex.kind) THEN "cancel"
    ELSE "error"

\* C11: when two scopes run concurrently, interleaved in any order, the sink
\* receives exactly 4 records that split by trace_id into two pairs; each pair
\* is enter then one terminal record and carries its own scope's action name,
\* rendered message and outcome.
C11_ConcurrentPairs ==
    (parent[2] = 0 /\ Ended(1) /\ Ended(2)) =>
        /\ Len(sink) = 4
        /\ \A i \in Scopes :
              /\ Cardinality(RecsOf(trace_id[i])) = 2
              /\ \E m, n \in RecsOf(trace_id[i]) :
                    /\ m < n
                    /\ Ev(m) = "enter"
                    /\ sink[m].msg = trace_message(action[i], formatted_message[i], "enter")
                    /\ Ev(n) = OutcomeEvent(raised[i])
                    /\ sink[n].msg = trace_message(action[i], formatted_message[i], Ev(n))
                    /\ sink[m].extra["action"] = action[i]
                    /\ sink[n].extra["action"] = action[i]

(* -------------------------------- C12 ---------------------------------- *)
\* the n-th %s of the template takes the n-th positional argument
Positional(m, args) ==
    [n \in 1..Len(m) |->
        IF m[n] = "%s" THEN args[Cardinality({ k \in 1..n : m[k] = "%s" })] ELSE m[n]]

\* every %(key)s takes the value of its key, a %s the dict itself
Keyword(m, kw) ==
    [n \in 1..Len(m) |->
        IF IsKeySpec(m[n]) THEN "x" ELSE IF m[n] = "%s" THEN DictStr(kw) ELSE m[n]]

Substituted(c) ==
    IF Len(c.args) > 0 THEN Positional(c.message, c.args)
    ELSE IF Len(c.kwargs) > 0 THEN Keyword(c.message, c.kwargs)
    ELSE c.message

\* C12: the message is rendered once at entry, positionally with args, by
\* keyword with kwargs and no args, verbatim with neither; every record of the
\* activation has the message "Action: <action> - <rendered> (<event>)" built
\* from that one rendering.
C12_MessageRenderedOnce ==
    \A i \in Scopes :
        Started(i) =>
            /\ formatted_message[i] = Substituted(call[i])
            /\ RecsOf(trace_id[i]) # {}
            /\ \A n \in RecsOf(trace_id[i]) :
                  sink[n].msg = <<"Action: ", action[i], " - ">> \o Substituted(call[i])
                                    \o <<" (", Ev(n), ")">>

\* a keyword rendering that reached its terminal record, args and kwargs aside
C12_Witness ==
    /\ Ended(1)
    /\ Len(sink) = 2
    /\ call[1].args = <<>> /\ call[1].kwargs = <<"k">>
    /\ call[1].message = <<"txt", "%(k)s">>
    /\ formatted_message[1] = <<"txt", "x">>

(* ========================= TraceFormatter.format ======================== *)
\* python values as a log record holds them: text, numbers (by their repr),
\* None, an object json cannot encode (by its str()), a dict with a tuple key
S(x)   == [t |-> "str",  v |-> x]
N(x)   == [t |-> "num",  v |-> x]
Null   == [t |-> "null", v |-> ""]
Obj(x) == [t |-> "obj",  v |-> x]
KeyDict == [t |-> "keydict", v |-> "{(1, 2): 3}"]

RECURSIVE Join(_)
Join(pieces) == IF Len(pieces) = 0 THEN "" ELSE Head(pieces) \o Join(Tail(pieces))

\* the keys rule 3 copies, lines 120-129
ActionKeys == {"action", "event", "trace_id", "start_time", "duration", "error",
               "error_type", "stacktrace"}

\* the names the last loop never copies, lines 135-157
Excluded == {"args", "lineno", "funcName", "module", "asctime", "created", "exc_info",
             "exc_text", "filename", "levelno", "levelname", "msecs", "msg", "name",
             "pathname", "process", "processName", "relativeCreated", "stack_info",
             "thread", "threadName"}

\* the attributes logging.LogRecord sets itself; message and asctime once
\* another formatter has formatted the record
StdAttrs(r) ==
    LET always ==
            ("name" :> S("inspect_ai")) @@ ("msg" :> S(Join(r.msg))) @@ ("args" :> Obj("()"))
            @@ ("levelname" :> S(r.levelname)) @@ ("levelno" :> N("5"))
            @@ ("pathname" :> S("/a/mod.py")) @@ ("filename" :> S("mod.py"))
            @@ ("module" :> S("mod")) @@ ("exc_info" :> Null) @@ ("exc_text" :> Null)
            @@ ("stack_info" :> Null) @@ ("lineno" :> N("10")) @@ ("funcName" :> S("f"))
            @@ ("created" :> N(r.created)) @@ ("msecs" :> N("0.0"))
            @@ ("relativeCreated" :> N("1.0")) @@ ("thread" :> N("1"))
            @@ ("threadName" :> S("MainThread")) @@ ("processName" :> S("MainProcess"))
            @@ ("process" :> N("1"))
    IN IF r.seen THEN always @@ ("message" :> S("earlier")) @@ ("asctime" :> S("earlier"))
       ELSE always

\* record.__dict__: the extra attributes next to the standard ones
RecordDict(r) == r.extra @@ StdAttrs(r)

\* record.getMessage(): str(msg), % args when there are args
GetMessage(r) ==
    IF Len(r.args) > 0 THEN FormatTuple(r.msg, r.args, <<>>)
    ELSE [ok |-> TRUE, text |-> r.msg, err |-> NoExc]

\* formatTime, lines 164-167: the creation time as local ISO-8601 text
FormatTime(created) == "iso(" \o created \o ")"

\* variant: message is the template, without the % formatting
BaseFieldsRawMessage(r, text) ==
    ("timestamp" :> S(FormatTime(r.created))) @@ ("level" :> S(r.levelname))
        @@ ("message" :> S(Join(r.msg)))

\* lines 102-106
BaseFields(r, text) ==
    ("timestamp" :> S(FormatTime(r.created))) @@ ("level" :> S(r.levelname))
        @@ ("message" :> S(Join(text)))

\* lines 109-115: module, function and line of a record that is not TRACE
CallSite(d) ==
    (IF "module" \in DOMAIN d THEN ("module" :> d["module"]) ELSE <<>>)
    @@ (IF "funcName" \in DOMAIN d THEN ("function" :> d["funcName"]) ELSE <<>>)
    @@ (IF "lineno" \in DOMAIN d THEN ("line" :> d["lineno"]) ELSE <<>>)

\* variant: every action field is written, None when the record lacks it
ActionFieldsOrNull(d) ==
    [k \in ActionKeys |-> IF k \in DOMAIN d THEN d[k] ELSE Null]

\* lines 118-131: the action fields the record has
ActionFields(d) == [k \in ActionKeys \cap DOMAIN d |-> d[k]]

\* variant: the call site is written for every level
ContextAnyLevel(r, d) == CallSite(d)

\* lines 109-131: the if / elif after the base fields
Context(r, d) ==
    IF r.levelname # "TRACE" THEN CallSite(d)
    ELSE IF "action" \in DOMAIN d THEN ActionFields(d)
    ELSE <<>>

\* variant: the loop over record.__dict__ is missing
UnexpectedSkipped(d, output) == <<>>

\* lines 134-158: the attributes neither written yet nor excluded
Unexpected(d, output) ==
    [k \in { x \in DOMAIN d : x \notin DOMAIN output /\ x \notin Excluded } |-> d[k]]

\* default=str, line 161: str() of what json cannot encode
JsonDefault(val) == IF val.t = "obj" THEN S(val.v) ELSE val

\* json.dumps(output, default=str), lines 160-162: a dict key that is not a
\* str, int, float, bool or None raises before default is asked
JsonDumps(output) ==
    IF \E k \in DOMAIN output : output[k].t = "keydict"
    THEN [st |-> "raised", line |-> <<>>,
          err |-> TypeError("keys must be str, int, float, bool or None, not tuple")]
    ELSE [st |-> "ok", line |-> [k \in DOMAIN output |-> JsonDefault(output[k])],
          err |-> NoExc]

\* variant: the last loop copies every attribute that is not excluded, over
\* the keys written before it
FormatLastWins(r) ==
    LET d == RecordDict(r)
        m == GetMessage(r)
    IN IF ~m.ok THEN [st |-> "raised", line |-> <<>>, err |-> m.err]
       ELSE LET known == Context(r, d) @@ BaseFields(r, m.text)
            IN JsonDumps([k \in { x \in DOMAIN d : x \notin Excluded } |-> d[k]] @@ known)

\* TraceFormatter.format, lines 100-162
Format(r) ==
    LET d == RecordDict(r)
        m == GetMessage(r)
    IN IF ~m.ok THEN [st |-> "raised", line |-> <<>>, err |-> m.err]
       ELSE LET known == Context(r, d) @@ BaseFields(r, m.text)
            IN JsonDumps(Unexpected(d, known) @@ known)

(* ----------------------- the records format is given -------------------- *)
FmtLevels == {"TRACE", "INFO"}

MsgCalls ==
    { [msg |-> <<"txt">>, args |-> <<>>],
      [msg |-> <<"%s">>, args |-> <<"x">>],
      [msg |-> <<"%s">>, args |-> <<>>],
      [msg |-> <<"%s", "%s">>, args |-> <<"x">>] }

\* names of ad hoc attributes: the action fields, one free name, and names
\* the formatter writes itself
ExtraKeys == ActionKeys \cup {"foo", "level", "function", "line"}

ExtraValues(k) == IF k = "foo" THEN {S("v"), Null, Obj("/x"), KeyDict} ELSE {S("v"), Null}

Extras ==
    UNION { { e \in [ks -> {S("v"), Null, Obj("/x"), KeyDict}] :
                \A k \in ks : e[k] \in ExtraValues(k) } :
            ks \in { x \in SUBSET ExtraKeys : Cardinality(x) <= MaxExtras } }

LogRecords ==
    { [levelname |-> l, msg |-> c.msg, args |-> c.args, created |-> "1730.5",
       seen |-> sn, extra |-> e] :
        l \in FmtLevels, c \in MsgCalls, sn \in BOOLEAN, e \in Extras }

InitFmt ==
    /\ InitTrace
    /\ rec \in LogRecords
    /\ out = NoOutput
    /\ written = <<>>
    /\ file = <<>>
    /\ rd_pc = "closed"
    /\ rd_pos = 0
    /\ trace_records = <<>>
    /\ returned = NoReturn

\* the handler calls format(record)
FormatRecord ==
    /\ out.st = "none"
    /\ rec # NoRecord
    /\ out' = Format(rec)
    /\ UNCHANGED <<traceVars, rec, written, file, rd_pc, rd_pos, trace_records, returned>>

NextFmt == FormatRecord

SpecFmt == InitFmt /\ [][NextFmt]_vars

(* -------------------------------- C17 ---------------------------------- *)
\* C17: format never raises, for any log record: the returned line is valid
\* JSON and a value JSON cannot represent is written as its text.
C17_FormatNeverRaises ==
    /\ out.st # "raised"
    /\ out.st = "ok" =>
          \A k \in DOMAIN out.line :
              /\ out.line[k].t \in {"str", "num", "null"}
              /\ (k \in DOMAIN rec.extra /\ rec.extra[k].t = "obj") =>
                    out.line[k] = S(rec.extra[k].v)

(* -------------------------------- C18 ---------------------------------- *)
\* C18: for a TRACE record with an action attribute, the action fields in the
\* output are exactly those of the eight the record has, each with the
\* record's value; a field the record lacks is left out, not written as null.
C18_ActionFieldsPresentOnly ==
    (out.st = "ok" /\ rec.levelname = "TRACE" /\ "action" \in DOMAIN rec.extra) =>
        \A k \in ActionKeys :
            /\ (k \in DOMAIN out.line) <=> (k \in DOMAIN rec.extra)
            /\ (k \in DOMAIN rec.extra) => out.line[k] = rec.extra[k]

\* an action record with event and trace_id and without duration
C18_Witness ==
    /\ out.st = "ok"
    /\ rec.levelname = "TRACE"
    /\ DOMAIN rec.extra = {"action", "event", "trace_id"}
    /\ "duration" \notin DOMAIN out.line
    /\ out.line["event"] = S("v")

(* -------------------------------- C19 ---------------------------------- *)
CallSiteKeys == {"module", "function", "line"}

\* C19 as claimed: every output has timestamp, level and message; module,
\* function and line are in the output if and only if the record is not TRACE.
C19_CallSiteIffNotTrace ==
    out.st = "ok" =>
        /\ {"timestamp", "level", "message"} \subseteq DOMAIN out.line
        /\ \A k \in CallSiteKeys : (k \in DOMAIN out.line) <=> (rec.levelname # "TRACE")

\* C19 amended: every output has timestamp, level and message; a record that
\* is not TRACE has module, function and line from the record's module,
\* funcName and lineno; a TRACE record never has module, and has function or
\* line only when it carries an ad hoc attribute of that name.
C19_CallSiteRule ==
    out.st = "ok" =>
        /\ {"timestamp", "level", "message"} \subseteq DOMAIN out.line
        /\ rec.levelname # "TRACE" =>
              /\ out.line["module"] = StdAttrs(rec)["module"]
              /\ out.line["function"] = StdAttrs(rec)["funcName"]
              /\ out.line["line"] = StdAttrs(rec)["lineno"]
        /\ rec.levelname = "TRACE" =>
              /\ "module" \notin DOMAIN out.line
              /\ \A k \in {"function", "line"} :
                    /\ (k \in DOMAIN out.line) <=> (k \in DOMAIN rec.extra)
                    /\ (k \in DOMAIN rec.extra) => out.line[k] = rec.extra[k]

\* a TRACE record with an ad hoc attribute named line, formatted
C19_Witness ==
    /\ out.st = "ok"
    /\ rec.levelname = "TRACE"
    /\ "line" \in DOMAIN rec.extra
    /\ "line" \in DOMAIN out.line

(* -------------------------------- C20 ---------------------------------- *)
\* the keys rules 1 and 2 have written before the last loop
WrittenFirst(r) ==
    {"timestamp", "level", "message"} \cup (IF r.levelname # "TRACE" THEN CallSiteKeys ELSE {})

\* C20 as claimed: every ad hoc attribute whose name is not excluded is in the
\* output with its value, at any level; no excluded attribute is copied.
C20_EveryExtraCopied ==
    out.st = "ok" =>
        /\ \A k \in DOMAIN rec.extra :
              k \notin Excluded =>
                  (k \in DOMAIN out.line /\ out.line[k] = JsonDefault(rec.extra[k]))
        /\ \A k \in Excluded \ {"module"} : k \notin DOMAIN out.line

\* C20 amended: every ad hoc attribute whose name is neither excluded nor a
\* key rules 1 and 2 have already written is in the output with its value (its
\* str() when JSON cannot represent it), at any level; one named like a key
\* already written is not copied, the key keeps the formatter's value; no
\* excluded attribute is copied.
C20_ExtraCopiedUnlessWritten ==
    out.st = "ok" =>
        /\ \A k \in DOMAIN rec.extra :
              /\ (k \notin Excluded /\ k \notin WrittenFirst(rec)) =>
                    (k \in DOMAIN out.line /\ out.line[k] = JsonDefault(rec.extra[k]))
              /\ k = "level" => out.line[k] = S(rec.levelname)
              /\ (k \in CallSiteKeys /\ rec.levelname # "TRACE") =>
                    out.line[k] = CallSite(StdAttrs(rec))[k]
        /\ \A k \in Excluded \ {"module"} : k \notin DOMAIN out.line

\* an INFO record with a free attribute holding an object and one named level
C20_Witness ==
    /\ out.st = "ok"
    /\ rec.levelname = "INFO"
    /\ DOMAIN rec.extra = {"foo", "level", "action"}
    /\ rec.extra["foo"] = Obj("/x")
    /\ out.line["foo"] = S("/x")
    /\ out.line["action"] = rec.extra["action"]
    /\ out.line["level"] = S("INFO")

(* ------------------------- the trace file ------------------------------ *)
MaxLines == 2

\* a line of the file: a JSON object, text that is not JSON, or JSON that is
\* not an object
JsonLine(o) == [kind |-> "json", obj |-> o]
Garbage == [kind |-> "text", obj |-> <<>>]
ArrayLine == [kind |-> "array", obj |-> <<>>]

InvalidLineError == [kind |-> "InvalidLineError", msg |-> "line contains invalid json"]
ValidationError == [kind |-> "ValidationError", msg |-> "validation error"]

\* jsonlines_reader.iter(type=dict), line 195: the next line as a dict
Decode(l) ==
    IF l.kind = "json" THEN [ok |-> TRUE, trace |-> l.obj, err |-> NoExc]
    ELSE [ok |-> FALSE, trace |-> <<>>, err |-> InvalidLineError]

\* field annotations of the record classes, lines 170-188
Events == {"enter", "cancel", "error", "exit"}
Required == {"timestamp", "level", "message"}
OptionalFloat == {"start_time", "duration"}
OptionalStr == {"error", "error_type", "stacktrace"}

IsStr(trace, k) == k \in DOMAIN trace /\ trace[k].t = "str"
IsOptional(trace, k, t) == k \notin DOMAIN trace \/ trace[k].t \in {t, "null"}
Default(trace, k) == IF k \in DOMAIN trace THEN trace[k] ELSE Null

\* TraceRecord, lines 170-173
TraceRecord(trace) == \A k \in Required : IsStr(trace, k)

Invalid == [ok |-> FALSE, rec |-> <<>>, err |-> ValidationError]
Valid(type, fields) == [ok |-> TRUE, rec |-> [type |-> type, fields |-> fields], err |-> NoExc]

\* SimpleTraceRecord(**trace), lines 176-177; other keys are ignored
SimpleTraceRecord(trace) ==
    IF TraceRecord(trace) /\ IsOptional(trace, "action", "null")
    THEN Valid("SimpleTraceRecord", [k \in Required |-> trace[k]] @@ ("action" :> Null))
    ELSE Invalid

\* ActionTraceRecord(**trace), lines 180-188; other keys are ignored
ActionTraceRecord(trace) ==
    IF /\ TraceRecord(trace)
       /\ IsStr(trace, "action")
       /\ IsStr(trace, "event") /\ trace["event"].v \in Events
       /\ IsStr(trace, "trace_id")
       /\ \A k \in OptionalFloat : IsOptional(trace, k, "num")
       /\ \A k \in OptionalStr : IsOptional(trace, k, "str")
    THEN Valid("ActionTraceRecord",
               [k \in Required \cup {"action", "event", "trace_id"} |-> trace[k]]
                   @@ [k \in OptionalFloat \cup OptionalStr |-> Default(trace, k)])
    ELSE Invalid

\* variant: a line is taken for an action record when it has an event
IsActionByEvent(trace) == "event" \in DOMAIN trace

\* line 196
IsAction(trace) == "action" \in DOMAIN trace

\* lines 196-199
Build(trace) == IF IsAction(trace) THEN ActionTraceRecord(trace) ELSE SimpleTraceRecord(trace)

\* variant: the new record goes to the front of the list
CollectFront(records, r) == <<r>> \o records

\* trace_records.append, lines 197 and 199
Collect(records, r) == Append(records, r)

\* variant: the error ends the loop and what was read so far is returned
PropagatePartial(records, err) == [st |-> "ok", records |-> records, err |-> NoExc]

\* an exception in the loop leaves read_trace_file: the list is lost
Propagate(records, err) == [st |-> "raised", records |-> <<>>, err |-> err]

(* ------------------- what is written to the file ----------------------- *)
\* the values logging hands to the formatter for the attributes trace_action
\* passes: trace_id a str, start_time and duration floats, the rest str
Attribute(k, v) ==
    IF k = "trace_id" THEN S(ToString(v))
    ELSE IF k \in OptionalFloat THEN N(ToString(v))
    ELSE IF k = "stacktrace" THEN S(Join(v))
    ELSE S(v)

\* logger.log(TRACE, msg, extra=extra) as the record the handler formats
Handled(sr) ==
    [levelname |-> sr.level, msg |-> sr.msg, args |-> <<>>, created |-> "1730.5",
     seen |-> FALSE, extra |-> [k \in DOMAIN sr.extra |-> Attribute(k, sr.extra[k])]]

\* the four records trace_action logs, lines 38-47, 52-61, 64-73, 77-89
ActionRecords ==
    { Handled(LogRecord("build", <<"x">>, "enter", EnterExtra("build", 1, 1))),
      Handled(LogRecord("build", <<"x">>, "exit", ExitExtra("build", 1, 1))),
      Handled(LogRecord("build", <<"x">>, "cancel", CancelExtra("build", 1, 0))),
      Handled(LogRecord("build", <<"x">>, "error",
                        ErrorExtra("build", 1, 1, [kind |-> "ValueError", msg |-> "boom"]))) }

\* the module's trace_message(logger, category, message, *args), lines 93-96
TraceMessageRecord(category, message, args) ==
    [levelname |-> TRACE, msg |-> <<"[", category, "] ">> \o message, args |-> args,
     created |-> "1730.5", seen |-> FALSE, extra |-> <<>>]

\* records without an action: a trace_message, and an INFO record of another
\* logger with ad hoc attributes
SimpleRecords ==
    { TraceMessageRecord("cat", <<"%s">>, <<"x">>),
      [levelname |-> "INFO", msg |-> <<"txt">>, args |-> <<>>, created |-> "1730.5",
       seen |-> FALSE, extra |-> ("foo" :> Obj("/x")) @@ ("event" :> S("v"))] }

\* a record format raises for: the handler reports it and writes no line
UnwritableRecords ==
    { [levelname |-> "INFO", msg |-> <<"txt">>, args |-> <<>>, created |-> "1730.5",
       seen |-> FALSE, extra |-> ("foo" :> KeyDict)] }

WrittenRecords == ActionRecords \cup SimpleRecords \cup UnwritableRecords

\* lines some other writer left in the file
Stamp == ("timestamp" :> S("iso(1)")) @@ ("level" :> S("INFO")) @@ ("message" :> S("m"))
ForeignLines ==
    { Garbage,
      ArrayLine,
      JsonLine(("timestamp" :> S("iso(1)")) @@ ("level" :> S("INFO"))),
      JsonLine(Stamp @@ ("message" :> N("3"))),
      JsonLine(Stamp @@ ("event" :> S("enter")) @@ ("trace_id" :> S("1"))),
      JsonLine(Stamp @@ ("action" :> S("a")) @@ ("trace_id" :> S("1"))),
      JsonLine(Stamp @@ ("action" :> S("a")) @@ ("event" :> S("start")) @@ ("trace_id" :> S("1"))),
      JsonLine(Stamp @@ ("action" :> S("a")) @@ ("event" :> S("exit"))),
      JsonLine(Stamp @@ ("action" :> Null) @@ ("event" :> S("exit")) @@ ("trace_id" :> S("1"))),
      JsonLine(Stamp @@ ("action" :> S("a")) @@ ("event" :> S("exit")) @@ ("trace_id" :> S("1"))
                   @@ ("duration" :> S("v"))) }

\* the handler formats the record and appends the line to the file
Emit(r) ==
    /\ rd_pc = "closed"
    /\ Len(file) < MaxLines
    /\ rec' = r
    /\ out' = Format(r)
    /\ IF out'.st = "ok"
       THEN /\ file' = Append(file, JsonLine(out'.line))
            /\ written' = Append(written, r)
       ELSE UNCHANGED <<file, written>>
    /\ UNCHANGED <<traceVars, rd_pc, rd_pos, trace_records, returned>>

\* another writer appends a line
Foreign(l) ==
    /\ rd_pc = "closed"
    /\ Len(file) < MaxLines
    /\ file' = Append(file, l)
    /\ written' = Append(written, NoRecord)
    /\ UNCHANGED <<traceVars, rec, out, rd_pc, rd_pos, trace_records, returned>>

(* --------------------------- read_trace_file --------------------------- *)
\* lines 192-194
Open ==
    /\ rd_pc = "closed"
    /\ rd_pc' = "reading"
    /\ rd_pos' = 0
    /\ trace_records' = <<>>
    /\ UNCHANGED <<traceVars, rec, out, written, file, returned>>

\* lines 195-199: one turn of the loop
ReadNext ==
    /\ rd_pc = "reading"
    /\ rd_pos < Len(file)
    /\ LET d == Decode(file[rd_pos + 1]) IN
         IF ~d.ok
         THEN /\ returned' = Propagate(trace_records, d.err)
              /\ rd_pc' = "done"
              /\ UNCHANGED <<rd_pos, trace_records>>
         ELSE LET b == Build(d.trace) IN
              IF ~b.ok
              THEN /\ returned' = Propagate(trace_records, b.err)
                   /\ rd_pc' = "done"
                   /\ UNCHANGED <<rd_pos, trace_records>>
              ELSE /\ trace_records' = Collect(trace_records, b.rec)
                   /\ rd_pos' = rd_pos + 1
                   /\ UNCHANGED <<rd_pc, returned>>
    /\ UNCHANGED <<traceVars, rec, out, written, file>>

\* line 200
ReadReturn ==
    /\ rd_pc = "reading"
    /\ rd_pos = Len(file)
    /\ returned' = [st |-> "ok", records |-> trace_records, err |-> NoExc]
    /\ rd_pc' = "done"
    /\ UNCHANGED <<traceVars, rec, out, written, file, rd_pos, trace_records>>

NextFile ==
    \/ \E r \in WrittenRecords : Emit(r)
    \/ \E l \in ForeignLines : Foreign(l)
    \/ Open
    \/ ReadNext
    \/ ReadReturn

SpecFile == Init /\ [][NextFile]_vars

(* -------------------------------- C13 ---------------------------------- *)
\* the typed record a written log record stands for
TypedOf(r) ==
    LET base == ("timestamp" :> S(FormatTime(r.created))) @@ ("level" :> S(r.levelname))
                    @@ ("message" :> S(Join(GetMessage(r).text)))
    IN IF "action" \in DOMAIN r.extra
       THEN [type |-> "ActionTraceRecord",
             fields |-> base @@ [k \in ActionKeys |->
                                    IF k \in DOMAIN r.extra THEN r.extra[k] ELSE Null]]
       ELSE [type |-> "SimpleTraceRecord", fields |-> base @@ ("action" :> Null)]

OnlyWritten == \A n \in 1..Len(written) : written[n] # NoRecord

\* C13: when every line of the file is a record formatted by TraceFormatter,
\* read_trace_file returns as many typed records as were written, in the
\* order written, each with the field content of the record written.
C13_RoundTrip ==
    (rd_pc = "done" /\ OnlyWritten) =>
        /\ returned.st = "ok"
        /\ Len(returned.records) = Len(written)
        /\ \A n \in 1..Len(written) : returned.records[n] = TypedOf(written[n])

\* a simple record with arguments and an action record, written and read back
C13_Witness ==
    /\ rd_pc = "done"
    /\ OnlyWritten
    /\ Len(written) >= 2
    /\ written[1] \in SimpleRecords /\ Len(written[1].args) > 0
    /\ written[2] \in ActionRecords /\ written[2].extra["event"] = S("error")
    /\ returned.st = "ok"
    /\ returned.records[2].fields["stacktrace"].t = "str"

(* -------------------------------- C14 ---------------------------------- *)
\* a line the reader accepts
Accepted(l) == Decode(l).ok /\ Build(Decode(l).trace).ok

\* C14: when any line of the file fails to decode or to validate, wherever it
\* is, the read ends with an error and the caller gets no record; a result
\* is handed over only at the end of the read.
C14_AllOrNothing ==
    /\ (rd_pc = "done" /\ \E n \in 1..Len(file) : ~Accepted(file[n])) =>
          (returned.st = "raised" /\ returned.records = <<>>
              /\ returned.err.kind \in {"InvalidLineError", "ValidationError"})
    /\ rd_pc # "done" => returned = NoReturn

\* a bad line after a good one: the record already built is not returned
C14_Witness ==
    /\ rd_pc = "done"
    /\ Len(file) >= 2
    /\ Accepted(file[1]) /\ ~Accepted(file[2])
    /\ Len(trace_records) = 1
    /\ returned.st = "raised"
    /\ returned.records = <<>>

(* -------------------------------- C15 ---------------------------------- *)
\* what the ActionTraceRecord class demands of a line
WellFormedAction(o) ==
    /\ \A k \in Required \cup {"action", "trace_id"} : k \in DOMAIN o /\ o[k].t = "str"
    /\ "event" \in DOMAIN o /\ o["event"] \in { S(e) : e \in Events }

\* C15: a decoded line with an action key is built as an ActionTraceRecord
\* and only when its event is one of the four and the required fields are
\* there, otherwise the read fails; a line without an action key is built as a
\* SimpleTraceRecord, never as an ActionTraceRecord, and fails the read only
\* for its timestamp, level or message.
C15_DiscriminatedByActionKey ==
    \A n \in 1..Len(file) :
        file[n].kind = "json" =>
            LET o == file[n].obj IN
            /\ n <= Len(trace_records) =>
                  IF "action" \in DOMAIN o
                  THEN trace_records[n].type = "ActionTraceRecord" /\ WellFormedAction(o)
                  ELSE trace_records[n].type = "SimpleTraceRecord"
            /\ (rd_pc = "done" /\ "action" \in DOMAIN o /\ ~WellFormedAction(o)) =>
                  returned.st = "raised"
            /\ (returned.st = "raised" /\ Len(trace_records) = n - 1) =>
                  ("action" \in DOMAIN o \/ \E k \in Required : ~IsStr(o, k))

\* a line with event and no action read as simple, then an action line
C15_Witness ==
    /\ Len(trace_records) >= 2
    /\ "event" \in DOMAIN file[1].obj /\ "action" \notin DOMAIN file[1].obj
    /\ trace_records[1].type = "SimpleTraceRecord"
    /\ trace_records[2].type = "ActionTraceRecord"

(* -------------------------------- C16 ---------------------------------- *)
\* C16: on success the result has one record per line of the file, the n-th
\* built from the n-th line; while reading, the list holds the records of the
\* lines read so far in file order.
C16_OneRecordPerLineInOrder ==
    /\ Len(trace_records) = rd_pos
    /\ \A n \in 1..Len(trace_records) : trace_records[n] = Build(Decode(file[n]).trace).rec
    /\ returned.st = "ok" =>
          /\ Len(returned.records) = Len(file)
          /\ \A n \in 1..Len(file) : returned.records[n] = Build(Decode(file[n]).trace).rec

\* two different lines read with success
C16_Witness ==
    /\ returned.st = "ok"
    /\ Len(file) >= 2
    /\ file[1] # file[2]
    /\ returned.records[1] # returned.records[2]

(* ------------------- the module's two ways to the sink ----------------- *)
MaxMessages == 2

\* positions of the records logged without an action
MessagesIn(records) == { n \in 1..Len(records) : "action" \notin DOMAIN records[n].extra }

\* trace_message(logger, category, message), lines 93-96:
\* logger.log(TRACE, f"[{category}] {message}")
TraceMessage ==
    /\ Cardinality(MessagesIn(sink)) < MaxMessages
    /\ \E category \in {"cat"}, message \in {<<"txt">>, <<"%s">>} :
          sink' = Append(sink, [level |-> TRACE,
                                msg |-> TraceMessageRecord(category, message, <<>>).msg,
                                extra |-> <<>>])
    /\ UNCHANGED <<scopeVars, mono, wall, issued, ioVars>>

NextLog ==
    \/ Enter(1)
    \/ TraceExit(1)
    \/ TraceCancel(1)
    \/ TraceError(1)
    \/ Unhandled(1)
    \/ TraceMessage

SpecLog == Init /\ [][NextLog]_vars

(* -------------------------------- C21 ---------------------------------- *)
\* C21: every record the module sends to the sink at TRACE severity carries
\* action, event and trace_id, and every record trace_action emits is sent at
\* TRACE severity.
C21_TraceOnlyForActions ==
    \A n \in 1..Len(sink) :
        /\ sink[n].level = TRACE => {"action", "event", "trace_id"} \subseteq DOMAIN sink[n].extra
        /\ "action" \in DOMAIN sink[n].extra => sink[n].level = TRACE

(* -------------------------------- C22 ---------------------------------- *)
\* scope i was opened inside the work of another scope
Nested(i) == parent[i] # 0

\* the work of the enclosing scope ended with what scope i raised again
PropagatedOut(i) ==
    /\ result[i] \notin {Pending, Normal}
    /\ raised[parent[i]] = result[i]

\* C22: for a scope nested in another, the sink holds outer enter, inner
\* enter, inner terminal, outer terminal in this order; when what the inner
\* work raised propagates outwards, both scopes record a terminal event of the
\* same kind (error with the same error_type and error, or cancel), each
\* under its own trace_id; no record names a parent or a child.
C22_WellNestedPropagation ==
    /\ \A i \in Scopes :
          (Nested(i) /\ Ended(i) /\ Ended(parent[i])) =>
              LET inner == trace_id[i]
                  outer == trace_id[parent[i]]
              IN /\ inner # outer
                 /\ \E a \in EntersOf(outer), b \in EntersOf(inner),
                       c \in TerminalsOf(inner), d \in TerminalsOf(outer) :
                       /\ a < b /\ b < c /\ c < d
                       /\ PropagatedOut(i) =>
                             /\ Ev(c) = OutcomeEvent(result[i])
                             /\ Ev(d) = Ev(c)
                             /\ Ev(c) = "error" =>
                                   /\ sink[c].extra["error_type"] = result[i].kind
                                   /\ sink[d].extra["error_type"] = result[i].kind
                                   /\ sink[c].extra["error"] = result[i].msg
                                   /\ sink[d].extra["error"] = result[i].msg
    /\ \A n \in Positions : DOMAIN sink[n].extra \subseteq ActionKeys

(* ---------------- any record, formatted and read back ------------------ *)
\* the handler formats the given record and appends the line
WriteRecord ==
    /\ out.st = "none"
    /\ Emit(rec)

NextAny ==
    \/ WriteRecord
    \/ Open
    \/ ReadNext
    \/ ReadReturn

SpecAny == InitFmt /\ [][NextAny]_vars

(* -------------------------------- C23 ---------------------------------- *)
\* C23: a file whose lines were all written by TraceFormatter.format, for any
\* log record it can be given, is read without error, each line as a
\* SimpleTraceRecord or an ActionTraceRecord.
C23_ReaderAcceptsFormatted ==
    (rd_pc = "done" /\ Len(file) > 0 /\ OnlyWritten) =>
        /\ returned.st = "ok"
        /\ \A n \in 1..Len(returned.records) :
              returned.records[n].type \in {"SimpleTraceRecord", "ActionTraceRecord"}

(* -------------------------------- C24 ---------------------------------- *)
\* C24: a key written by rules 1 to 3 keeps the value that rule gave it:
\* timestamp, level and message those of rule 1, module, function and line of
\* a record that is not TRACE those of rule 2, the action fields of a TRACE
\* action record those of rule 3; an attribute of the same name is not copied
\* over it by the last loop.
C24_EarlierRuleWins ==
    out.st = "ok" =>
        /\ out.line["timestamp"] = S(FormatTime(rec.created))
        /\ out.line["level"] = S(rec.levelname)
        /\ out.line["message"] = S(Join(GetMessage(rec).text))
        /\ rec.levelname # "TRACE" =>
              /\ out.line["module"] = S("mod")
              /\ out.line["function"] = S("f")
              /\ out.line["line"] = N("10")
        /\ (rec.levelname = "TRACE" /\ "action" \in DOMAIN rec.extra) =>
              \A k \in ActionKeys \cap DOMAIN rec.extra : out.line[k] = rec.extra[k]

\* a record another formatter has seen, with attributes named level and line
C24_Witness ==
    /\ out.st = "ok"
    /\ rec.levelname = "INFO"
    /\ rec.seen
    /\ {"level", "line"} \subseteq DOMAIN rec.extra
    /\ rec.extra["level"] = S("v")
    /\ out.line["level"] = S("INFO")
    /\ out.line["line"] = N("10")
    /\ out.line["message"] # S("earlier")

====
